---- MODULE Spec2Model ----
(***************************************************************************)
(* A model of src/src/ProxyPool.js: the ProxyPool class (pool with a       *)
(* round-robin cursor, expiring validation cache, single-flight refill     *)
(* cycle, maintenance timer).                                              *)
(*                                                                         *)
(* JavaScript runs one piece of code at a time; an async function runs     *)
(* synchronously up to its first pending `await`.  Each action below is    *)
(* one such run: a public call together with everything it executes before *)
(* it returns, or the resumption of the refill cycle after an await up to  *)
(* its next await.  The awaits of refillProxies at which other code can    *)
(* run are: the provider request (line 124), the two retry sleeps (lines   *)
(* 128, 153), Promise.all over one validation chunk (line 315), and the    *)
(* await of the cache-first pass (line 110), which resumes one turn after  *)
(* tryUsingCachedProxies returned.  initialize() resumes after its await   *)
(* (line 62) one turn after refillProxies returned.                        *)
(*                                                                         *)
(* A raw address string "host:port" is represented by the pair             *)
(* <<host, port>> of its two colon-separated fields (the provider's        *)
(* contract, spec section 6); proxy.split(':') reads the two fields back.  *)
(* A member of the pool keeps ip and port; protocol, full and addedAt are  *)
(* never read by the class and are left out.                               *)
(***************************************************************************)
EXTENDS Integers, Sequences, FiniteSets, TLC

\* ------------------------------------------------------------------ bounds
MaxTime == 2            \* the clock runs over 0..MaxTime
MaxBatch == 2           \* longest provider batch where the cache is on
MaxBatchPool == 3       \* longest provider batch where the cache is off
MaxTimeEntry == 1       \* the clock runs over 0..MaxTimeEntry in SpecEntry
MaxTimeFair == 1        \* the clock runs over 0..MaxTimeFair in SpecFair
MaxBatchFair == 1       \* longest provider batch in SpecFair
MaxTimeTtl == 3         \* the clock runs over 0..MaxTimeTtl in SpecTtl
MaxInitOverlap == 2     \* initialize() calls per behaviour in SpecInit
MaxInitCalls == 1       \* initialize() calls per behaviour

\* The addresses the provider can name: A1 and A2 share a host, A1 and A3 a port.
A1 == <<"h1", 8080>>
A2 == <<"h1", 8081>>
A3 == <<"h2", 8080>>
Two == {A1, A2}
Three == {A1, A2, A3}

\* this.checkTimer = null; timer handles are 1, 2, ...
NoTimer == 0

VARIABLES
    \* configuration (constructor, lines 26-38); fixed after construction
    targetCount, minThreshold, maxRefillAttempts, useCache, cacheExpiry,
    concurrentRequests,
    \* internal state of the object (lines 41-46)
    availableProxies,   \* sequence of [ip, port], insertion order
    currentIndex,       \* 0-based cursor
    isInitialized,
    isRefilling,
    checkTimer,         \* handle of the interval timer, or NoTimer
    proxyCache,         \* Map in insertion order: sequence of [key, valid, timestamp]
    \* the runtime around the object
    now,                \* Date.now()
    timers,             \* handles of the interval timers that are active
    nextTimer,          \* next handle setInterval returns
    initCalls,          \* initialize() calls made so far
    pendingInit,        \* initialize() continuations queued as microtasks
    cycle,              \* position and locals of the refill cycle in flight
    \* observation (history) variables
    last,               \* the step just taken: [op, arg, ret, note]
    log,                \* what the current or latest refill cycle did
    served              \* results of getProxy() since the pool last changed

cfg == <<targetCount, minThreshold, maxRefillAttempts, useCache, cacheExpiry,
         concurrentRequests>>
obj == <<availableProxies, currentIndex, isInitialized, isRefilling, checkTimer,
         proxyCache>>
env == <<now, timers, nextTimer, initCalls, pendingInit, cycle>>
obs == <<last, log, served>>
vars == <<cfg, obj, env, obs>>

Min(a, b) == IF a < b THEN a ELSE b
Max(a, b) == IF a > b THEN a ELSE b
Range(s) == {s[k] : k \in 1..Len(s)}

\* ------------------------------------------------------------- addresses
\* const [ip, port] = proxy.split(':')
Split(proxy) == [ip |-> proxy[1], port |-> proxy[2]]

\* `${ip}:${portStr}`
ProxyKey(ip, portStr) == <<ip, portStr>>

\* port.toString(): removeProxy takes the port as a string or as a number.
\* An argument is <<"str", p>> or <<"num", p>>; both print as the numeral p.
PortToString(port) == port[2]

\* p.ip === ip && p.port === port
SameAddressTypeConfused(p, ip, port) == p.ip = ip /\ <<"num", p.port>> = <<"str", port>>
SameAddress(p, ip, port) == p.ip = ip /\ p.port = port

\* this.availableProxies.some(p => p.ip === ip && p.port === port)
InPool(pool, ip, port) == \E k \in 1..Len(pool) : SameAddress(pool[k], ip, port)

\* ------------------------------------------------------------------ cache
CacheHas(cache, key) == \E k \in 1..Len(cache) : cache[k].key = key
CacheGet(cache, key) == cache[CHOOSE k \in 1..Len(cache) : cache[k].key = key]

\* Map.set: an existing key keeps its place in the iteration order.
CacheSet(cache, key, valid, t) ==
    LET e == [key |-> key, valid |-> valid, timestamp |-> t]
    IN  IF CacheHas(cache, key)
        THEN [k \in 1..Len(cache) |-> IF cache[k].key = key THEN e ELSE cache[k]]
        ELSE Append(cache, e)

\* (Date.now() - cachedResult.timestamp) < this.cacheExpiry
IsFreshInclusive(entry, t) == t - entry.timestamp <= cacheExpiry
IsFresh(entry, t) == t - entry.timestamp < cacheExpiry

\* now - data.timestamp > this.cacheExpiry
IsSwept(entry, t) == t - entry.timestamp > cacheExpiry

\* ------------------------------------------------------------------- pool
\* filterExistingProxies
filterNothing(pool, proxies) == proxies
filterExistingProxies(pool, proxies) ==
    SelectSeq(proxies, LAMBDA p : ~InPool(pool, Split(p).ip, Split(p).port))

\* if (this.availableProxies.length >= this.targetCount) break;
PoolFullNever(pool) == FALSE
PoolFull(pool) == Len(pool) >= targetCount

\* The loop body of addValidProxies from results[k] on: a valid result whose
\* address is not a member is pushed (and recorded valid), the loop breaks
\* once the pool holds targetCount; an invalid result is recorded invalid.
RECURSIVE addValidFrom(_, _, _, _, _)
addValidFrom(pool, cache, results, k, t) ==
    IF k > Len(results) THEN [pool |-> pool, cache |-> cache]
    ELSE LET r == results[k]
             a == Split(r.proxy)
         IN  IF r.result
             THEN IF ~InPool(pool, a.ip, a.port)
                  THEN LET pool2 == Append(pool, [ip |-> a.ip, port |-> a.port])
                           cache2 == IF useCache
                                     THEN CacheSet(cache, r.proxy, TRUE, t)
                                     ELSE cache
                       IN  IF PoolFull(pool2)
                           THEN [pool |-> pool2, cache |-> cache2]
                           ELSE addValidFrom(pool2, cache2, results, k + 1, t)
                  ELSE addValidFrom(pool, cache, results, k + 1, t)
             ELSE IF useCache
                  THEN addValidFrom(pool, CacheSet(cache, r.proxy, FALSE, t),
                                    results, k + 1, t)
                  ELSE addValidFrom(pool, cache, results, k + 1, t)

addValidProxies(pool, cache, results, t) == addValidFrom(pool, cache, results, 1, t)

\* (this.currentIndex + 1) % this.availableProxies.length
NextIndexNoWrap(idx, n) == idx + 1
NextIndex(idx, n) == (idx + 1) % n

\* this.availableProxies.filter(proxy => !(proxy.ip === ip && proxy.port === portStr))
WithoutAddressFirst(pool, ip, portStr) == IF pool = <<>> THEN pool ELSE Tail(pool)
WithoutAddress(pool, ip, portStr) ==
    SelectSeq(pool, LAMBDA p : ~SameAddress(p, ip, portStr))

\* --------------------------------------------------------------- provider
\* What one request to the listing service can come back with (lines 265-280):
\* the request throws, the body is missing, the code is not 200, code 200
\* without data.data, code 200 with data.data but no proxies, code 200 with a
\* list of addresses.
FailureKinds == {"transportError", "noBody", "nonSuccess", "noData", "noProxies"}
BatchesOver(cands, n) == UNION {[1..k -> cands] : k \in 0..n}
ResponsesOver(kinds, batches) ==
    {[kind |-> k, proxies |-> <<>>] : k \in kinds}
    \cup {[kind |-> "ok", proxies |-> b] : b \in batches}

\* getProxiesFromProvider: the value it returns for a response.  A request
\* that throws, a body that is missing and a code other than 200 give [];
\* code 200 without data.data throws at line 271 and gives [] (line 279);
\* code 200 with data.data but no proxies field returns undefined.
getProxiesFromProvider(resp) ==
    CASE resp.kind = "transportError" -> [defined |-> TRUE, list |-> <<>>]
      [] resp.kind = "noBody"         -> [defined |-> TRUE, list |-> <<>>]
      [] resp.kind = "nonSuccess"     -> [defined |-> TRUE, list |-> <<>>]
      [] resp.kind = "noData"         -> [defined |-> TRUE, list |-> <<>>]
      [] resp.kind = "noProxies"      -> [defined |-> FALSE, list |-> <<>>]
      [] OTHER                        -> [defined |-> TRUE, list |-> resp.proxies]

\* ----------------------------------------------------------- refill cycle
\* Locals of refillProxies / testProxiesConcurrently that live across awaits.
\*   pc: "idle" | "loop" | "fetch" | "sleep" | "test"
\*   src: whose candidates are under test, "cache" (line 192) or "fetch" (line 141)
\*   i: 1-based start of the chunk in flight; pending: that chunk's promises
IdleCycle ==
    [pc |-> "idle", attempts |-> 0, src |-> "none", proxies |-> <<>>, i |-> 0,
     results |-> <<>>, remainingNeeded |-> 0, pending |-> <<>>,
     initWaiting |-> FALSE]

\* What the cycle in flight has done so far (history): provider requests
\* issued, probes issued on fetched candidates, pool size at entry, whether
\* every batch so far was empty, members pushed, whether an error abandoned
\* it; for the batch under validation, whether a verdict was invalid and
\* whether removeProxy took a member meanwhile.
EmptyLog ==
    [fetches |-> 0, probesFetched |-> 0, startLen |-> 0, allEmpty |-> TRUE,
     added |-> 0, abandoned |-> FALSE, attInvalid |-> FALSE, attRemoved |-> FALSE]

\* What one run did (history): ended: a cycle reached its finally block;
\* tested: the validation of a fetched batch completed, with the batch, the
\* deficit it was validated against and the pool size after admission;
\* summary: the cycle's log at that point.
NoNote == [ended |-> FALSE, tested |-> FALSE, summary |-> EmptyLog,
           batch |-> <<>>, results |-> <<>>, deficit |-> 0, sizeAfter |-> 0]

\* The mutable state one run works on, and what the run did (note).
St ==
    [pool |-> availableProxies, cache |-> proxyCache, refilling |-> isRefilling,
     cyc |-> cycle, log |-> log, initialized |-> isInitialized,
     checkTimer |-> checkTimer, timers |-> timers, nextTimer |-> nextTimer,
     pendingInit |-> pendingInit, note |-> NoNote]

\* Math.min(this.concurrentRequests * 2, 20)
ChunkSize == Min(concurrentRequests * 2, 20)

\* One chunk of testProxiesConcurrently (lines 297-313): a candidate with a
\* fresh cached verdict resolves to it at once, any other is probed.
StartChunk(st, t) ==
    LET c == st.cyc
        chunk == SubSeq(c.proxies, c.i, Min(c.i + ChunkSize - 1, Len(c.proxies)))
        Hit(p) == useCache /\ CacheHas(st.cache, p) /\ IsFresh(CacheGet(st.cache, p), t)
        pending == [j \in 1..Len(chunk) |->
                       IF Hit(chunk[j])
                       THEN [proxy |-> chunk[j], cached |-> TRUE,
                             result |-> CacheGet(st.cache, chunk[j]).valid]
                       ELSE [proxy |-> chunk[j], cached |-> FALSE, result |-> FALSE]]
        probes == SelectSeq(pending, LAMBDA q : ~q.cached)
    IN  [st EXCEPT !.cyc.pending = pending,
                   !.log.probesFetched =
                       IF c.src = "fetch" THEN @ + Len(probes) ELSE @]

\* testProxiesConcurrently up to its first await (lines 289-315).
TestStart(st, proxies, src, t) ==
    StartChunk([st EXCEPT !.cyc.pc = "test", !.cyc.src = src,
                          !.cyc.proxies = proxies, !.cyc.i = 1,
                          !.cyc.results = <<>>,
                          !.cyc.remainingNeeded = targetCount - Len(st.pool)], t)

\* initialize after its await (lines 65-67).
InitContinue(st) ==
    [st EXCEPT !.checkTimer = st.nextTimer,
               !.timers = @ \cup {st.nextTimer},
               !.nextTimer = @ + 1,
               !.initialized = TRUE]

\* finally { this.isRefilling = false; ... }
FinallyFlagKeptOnError(st) == st.log.abandoned
FinallyFlag(st) == FALSE

\* The finally block (line 159) and the return of refillProxies: the
\* initialize() awaiting this cycle becomes ready to continue.
Finish(st) ==
    [st EXCEPT !.refilling = FinallyFlag(st), !.cyc = IdleCycle,
               !.note.ended = TRUE, !.note.summary = st.log,
               !.log = EmptyLog,
               !.pendingInit = IF st.cyc.initWaiting THEN @ + 1 ELSE @]

\* this.availableProxies.length < this.targetCount && attempts < this.maxRefillAttempts
LoopContinues(pool, attempts) ==
    Len(pool) < targetCount /\ attempts < maxRefillAttempts

\* The while test and, when it passes, the body up to the provider request
\* (lines 114-124).
LoopHead(st) ==
    IF LoopContinues(st.pool, st.cyc.attempts)
    THEN [st EXCEPT !.cyc = [IdleCycle EXCEPT !.pc = "fetch",
                                              !.attempts = st.cyc.attempts + 1,
                                              !.initWaiting = st.cyc.initWaiting],
                    !.log.fetches = @ + 1]
    ELSE Finish(st)

\* The scan of tryUsingCachedProxies (lines 178-186) from entry k on.
RECURSIVE scanCache(_, _, _, _, _)
scanCache(cache, k, acc, neededProxies, t) ==
    IF k > Len(cache) THEN acc
    ELSE IF IsFresh(cache[k], t) /\ cache[k].valid
         THEN LET acc2 == Append(acc, cache[k].key)
              IN  IF Len(acc2) >= neededProxies THEN acc2
                  ELSE scanCache(cache, k + 1, acc2, neededProxies, t)
         ELSE scanCache(cache, k + 1, acc, neededProxies, t)

\* if (this.isRefilling) return;
RefillGuardOff(st) == FALSE
RefillGuard(st) == st.refilling

\* refillProxies up to its first pending await (lines 96-124).
RefillProxies(st, t) ==
    IF RefillGuard(st) THEN st
    ELSE LET s1 == [st EXCEPT !.refilling = TRUE,
                              !.cyc = [IdleCycle EXCEPT !.pc = "loop"],
                              !.log = [EmptyLog EXCEPT !.startLen = Len(st.pool)]]
             neededProxies == targetCount - Len(st.pool)
         IN  IF useCache /\ Len(st.cache) > 0
             THEN LET cachedProxies == scanCache(st.cache, 1, <<>>, neededProxies, t)
                  IN  IF Len(cachedProxies) > 0
                      THEN TestStart(s1, cachedProxies, "cache", t)
                      ELSE s1
             ELSE LoopHead(s1)

\* checkAndRefill (lines 85-90).
CheckAndRefill(st, t) ==
    IF Len(st.pool) <= minThreshold /\ ~st.refilling
    THEN RefillProxies(st, t)
    ELSE st

\* results.filter(item => item.result).length
SuccessCount(results) == Cardinality({k \in 1..Len(results) : results[k].result})

\* After testProxiesConcurrently returns: addValidProxies, then the rest of
\* the iteration (lines 144-154) or, in the cache-first pass (line 193), the
\* return to the await of line 110.
AfterTest(st, t) ==
    LET r == addValidProxies(st.pool, st.cache, st.cyc.results, t)
        fetched == st.cyc.src = "fetch"
        log2 == [st.log EXCEPT !.added = @ + Len(r.pool) - Len(st.pool)]
        s1 == [st EXCEPT !.pool = r.pool, !.cache = r.cache, !.log = log2,
                         !.note = IF fetched
                                  THEN [@ EXCEPT !.tested = TRUE, !.summary = log2,
                                                 !.batch = st.cyc.proxies,
                                                 !.results = st.cyc.results,
                                                 !.deficit = st.cyc.remainingNeeded,
                                                 !.sizeAfter = Len(r.pool)]
                                  ELSE @,
                         !.cyc = [IdleCycle EXCEPT !.pc = "sleep",
                                                   !.attempts = st.cyc.attempts,
                                                   !.initWaiting = st.cyc.initWaiting]]
    IN  IF ~fetched THEN [s1 EXCEPT !.cyc.pc = "loop"]
        ELSE IF Len(s1.pool) >= targetCount THEN Finish(s1)
        ELSE s1

\* Promise.all of the chunk in flight resolves (lines 315-325); o gives the
\* outcome of each probe of the chunk.
ChunkDone(st, o, t) ==
    LET c == st.cyc
        batchResults == [j \in 1..Len(c.pending) |->
                            [proxy |-> c.pending[j].proxy,
                             result |-> IF c.pending[j].cached
                                        THEN c.pending[j].result ELSE o[j]]]
        results2 == c.results \o batchResults
        i2 == c.i + ChunkSize
        bad == \E k \in 1..Len(batchResults) : ~batchResults[k].result
        s1 == [st EXCEPT !.cyc.results = results2, !.cyc.pending = <<>>,
                         !.log.attInvalid = IF c.src = "fetch" THEN @ \/ bad ELSE @]
    IN  IF SuccessCount(results2) < c.remainingNeeded /\ i2 <= Len(c.proxies)
        THEN StartChunk([s1 EXCEPT !.cyc.i = i2], t)
        ELSE AfterTest(s1, t)

\* The provider request resolves (lines 124-141).
FetchDone(st, resp, t) ==
    LET proxies == getProxiesFromProvider(resp)
    IN  IF ~proxies.defined
        THEN \* proxies.length throws: catch (line 156), finally
             Finish([st EXCEPT !.log.abandoned = TRUE, !.log.allEmpty = FALSE])
        ELSE IF Len(proxies.list) = 0
        THEN [st EXCEPT !.cyc.pc = "sleep"]
        ELSE LET newProxies == filterExistingProxies(st.pool, proxies.list)
                 s1 == [st EXCEPT !.log.allEmpty = FALSE,
                                  !.log.attInvalid = FALSE,
                                  !.log.attRemoved = FALSE]
             IN  IF Len(newProxies) = 0
                 THEN LoopHead(s1)
                 ELSE TestStart(s1, newProxies, "fetch", t)

\* ---------------------------------------------------------------- actions
NoArg == [ip |-> "", port |-> 0, form |-> "", resp |-> "", batch |-> <<>>]
Void == [kind |-> "void", bool |-> FALSE, proxy |-> <<>>]
BoolRet(b) == [kind |-> "bool", bool |-> b, proxy |-> <<>>]

\* Write back what a run left, and record the run.
Commit(st, op, arg, ret) ==
    /\ availableProxies' = st.pool
    /\ proxyCache' = st.cache
    /\ isRefilling' = st.refilling
    /\ cycle' = st.cyc
    /\ log' = st.log
    /\ isInitialized' = st.initialized
    /\ checkTimer' = st.checkTimer
    /\ timers' = st.timers
    /\ nextTimer' = st.nextTimer
    /\ pendingInit' = st.pendingInit
    /\ last' = [op |-> op, arg |-> arg, ret |-> ret, note |-> st.note]
    /\ served' = IF st.pool = availableProxies THEN served ELSE <<>>

\* initialize() up to its await (lines 58-62).  The continuation becomes
\* ready when the cycle this call started ends, or at once when
\* refillProxies returned at once (guard) or ran to its end without awaiting.
Initialize(maxCalls) ==
    /\ initCalls < maxCalls
    /\ initCalls' = initCalls + 1
    /\ IF isInitialized
       THEN Commit(St, "initialize", NoArg, Void)
       ELSE LET s1 == RefillProxies(St, now)
                s2 == IF s1.refilling /\ ~isRefilling
                      THEN [s1 EXCEPT !.cyc.initWaiting = TRUE]
                      ELSE [s1 EXCEPT !.pendingInit = @ + 1]
            IN  Commit(s2, "initialize", NoArg, Void)
    /\ UNCHANGED <<cfg, currentIndex, now>>

\* A queued initialize() continuation runs (lines 65-67).
InitializeResume ==
    /\ pendingInit > 0
    /\ Commit(InitContinue([St EXCEPT !.pendingInit = @ - 1]),
              "initializeResume", NoArg, Void)
    /\ UNCHANGED <<cfg, currentIndex, now, initCalls>>

\* stop() (lines 74-80).
Stop ==
    /\ Commit(IF checkTimer # NoTimer
              THEN [St EXCEPT !.timers = @ \ {checkTimer}, !.checkTimer = NoTimer]
              ELSE St,
              "stop", NoArg, Void)
    /\ UNCHANGED <<cfg, currentIndex, now, initCalls>>

\* An active interval timer fires: checkAndRefill (line 65).
TimerTick ==
    /\ timers # {}
    /\ Commit(CheckAndRefill(St, now), "timerTick", NoArg, Void)
    /\ UNCHANGED <<cfg, currentIndex, now, initCalls>>

\* refillProxies() called from outside.
RefillCall ==
    /\ Commit(RefillProxies(St, now), "refillProxies", NoArg, Void)
    /\ UNCHANGED <<cfg, currentIndex, now, initCalls>>

\* getProxy() (lines 383-394).  A cursor outside the list reads undefined.
\* served keeps the latest length + 1 results.
GetProxy ==
    /\ IF Len(availableProxies) = 0
       THEN /\ last' = [op |-> "getProxy", arg |-> NoArg,
                        ret |-> [kind |-> "null", bool |-> FALSE, proxy |-> <<>>],
                        note |-> NoNote]
            /\ UNCHANGED <<currentIndex, served>>
       ELSE LET ret == IF currentIndex < Len(availableProxies)
                       THEN [kind |-> "proxy", bool |-> FALSE,
                             proxy |-> <<availableProxies[currentIndex + 1]>>]
                       ELSE [kind |-> "undefined", bool |-> FALSE, proxy |-> <<>>]
                s2 == Append(served, ret)
            IN  /\ currentIndex' = NextIndex(currentIndex, Len(availableProxies))
                /\ last' = [op |-> "getProxy", arg |-> NoArg, ret |-> ret,
                            note |-> NoNote]
                /\ served' = IF Len(s2) > Len(availableProxies) + 1
                             THEN Tail(s2) ELSE s2
    /\ UNCHANGED <<cfg, availableProxies, isInitialized, isRefilling, checkTimer,
                   proxyCache, env, log>>

\* The cursor after removeProxy's filter (lines 424-426).
ClampNever(idx, n) == idx
ClampIndex(idx, n) == IF idx >= n /\ n > 0 THEN 0 ELSE idx

\* The cache after removeProxy looked for the member (lines 407-417).
markRemovedNever(cache, found, ip, portStr, t) == cache
markRemoved(cache, found, ip, portStr, t) ==
    IF found /\ useCache
    THEN CacheSet(cache, ProxyKey(ip, portStr), FALSE, t)
    ELSE cache

\* removeProxy(ip, port) (lines 402-440), with the part of checkAndRefill it
\* runs before it returns.
RemoveProxy(ip, port) ==
    LET portStr == PortToString(port)
        found == InPool(availableProxies, ip, portStr)
        cache2 == markRemoved(proxyCache, found, ip, portStr, now)
        pool2 == WithoutAddress(availableProxies, ip, portStr)
        removed == Len(availableProxies) > Len(pool2)
        s1 == [St EXCEPT !.pool = pool2, !.cache = cache2,
                         !.log.attRemoved =
                             @ \/ (removed /\ cycle.pc = "test" /\ cycle.src = "fetch")]
    IN  /\ currentIndex' = ClampIndex(currentIndex, Len(pool2))
        /\ Commit(CheckAndRefill(s1, now), "removeProxy",
                  [NoArg EXCEPT !.ip = ip, !.port = portStr, !.form = port[1]],
                  BoolRet(removed))
        /\ UNCHANGED <<cfg, now, initCalls>>

\* removeProxy called for one of the addresses, port given as string or number.
RemoveAny(addrs) ==
    \E a \in addrs, form \in {"str", "num"} : RemoveProxy(a[1], <<form, a[2]>>)

\* cleanupCache() (lines 461-477).
CleanupCache ==
    /\ Commit(IF ~useCache THEN St
              ELSE [St EXCEPT !.cache = SelectSeq(@, LAMBDA e : ~IsSwept(e, now))],
              "cleanupCache", NoArg, Void)
    /\ UNCHANGED <<cfg, currentIndex, now, initCalls>>

\* Time passes.
Tick(maxTime) ==
    /\ now < maxTime
    /\ now' = now + 1
    /\ last' = [op |-> "tick", arg |-> NoArg, ret |-> Void, note |-> NoNote]
    /\ UNCHANGED <<cfg, obj, timers, nextTimer, initCalls, pendingInit, cycle,
                   log, served>>

\* The provider request of the cycle comes back with one of the responses.
ProviderResponds(responses) ==
    /\ cycle.pc = "fetch"
    /\ \E resp \in responses :
           Commit(FetchDone(St, resp, now), "fetchDone",
                  [NoArg EXCEPT !.resp = resp.kind, !.batch = resp.proxies], Void)
    /\ UNCHANGED <<cfg, currentIndex, now, initCalls>>

\* A retry sleep ends (lines 128, 153): back to the while test.
SleepEnds ==
    /\ cycle.pc = "sleep"
    /\ Commit(LoopHead(St), "sleepDone", NoArg, Void)
    /\ UNCHANGED <<cfg, currentIndex, now, initCalls>>

\* The cycle resumes after the await of the cache-first pass (line 110).
CachePassReturns ==
    /\ cycle.pc = "loop"
    /\ Commit(LoopHead(St), "cachePassDone", NoArg, Void)
    /\ UNCHANGED <<cfg, currentIndex, now, initCalls>>

\* The validation chunk in flight resolves, each probe with some outcome.
ChunkResolves ==
    /\ cycle.pc = "test"
    /\ \E o \in [1..Len(cycle.pending) -> BOOLEAN] :
           /\ \A j \in 1..Len(cycle.pending) : cycle.pending[j].cached => o[j]
           /\ Commit(ChunkDone(St, o, now), "chunkDone", NoArg, Void)
    /\ UNCHANGED <<cfg, currentIndex, now, initCalls>>

\* ------------------------------------------------------------------- init
\* The options object handed to the constructor.
Config(tc, mt, ma, uc, ce, cr) ==
    [targetCount |-> tc, minThreshold |-> mt, maxRefillAttempts |-> ma,
     useCache |-> uc, cacheExpiry |-> ce, concurrentRequests |-> cr]

\* The defaults of the numeric options (lines 26-38).
DefaultTargetCount == 20
DefaultConcurrentRequests == 10
DefaultMinThreshold == 5
DefaultMaxRefillAttempts == 20
DefaultCacheExpiry == 3600000

\* options.x || d: an option that is falsy, 0 among the numbers, is replaced
\* by the default.
OrDefault(x, d) == IF x = 0 THEN d ELSE x

\* The object after construction (lines 26-46) from one of the option sets.
InitWith(configs) ==
    /\ \E c \in configs :
        /\ targetCount = OrDefault(c.targetCount, DefaultTargetCount)
        /\ minThreshold = OrDefault(c.minThreshold, DefaultMinThreshold)
        /\ maxRefillAttempts =
               OrDefault(c.maxRefillAttempts, DefaultMaxRefillAttempts)
        /\ useCache = c.useCache
        /\ cacheExpiry = OrDefault(c.cacheExpiry, DefaultCacheExpiry)
        /\ concurrentRequests =
               OrDefault(c.concurrentRequests, DefaultConcurrentRequests)
    /\ availableProxies = <<>>
    /\ currentIndex = 0
    /\ isInitialized = FALSE
    /\ isRefilling = FALSE
    /\ checkTimer = NoTimer
    /\ proxyCache = <<>>
    /\ now = 0
    /\ timers = {}
    /\ nextTimer = 1
    /\ initCalls = 0
    /\ pendingInit = 0
    /\ cycle = IdleCycle
    /\ last = [op |-> "new", arg |-> NoArg, ret |-> Void, note |-> NoNote]
    /\ log = EmptyLog
    /\ served = <<>>

\* ---------------------------------------------------------- specifications
Failures == {"nonSuccess", "noProxies"}

\* Spec: cache on (ttl 1), addresses A1 and A2, target 2, chunks of 2; cycles
\* are entered by refillProxies() and by removeProxy's check.
Init == InitWith({Config(2, 1, 2, TRUE, 1, 1)})

Next ==
    \/ RefillCall
    \/ GetProxy
    \/ RemoveAny(Two)
    \/ CleanupCache
    \/ Tick(MaxTime)
    \/ ProviderResponds(ResponsesOver(Failures, BatchesOver(Two, MaxBatch)))
    \/ SleepEnds
    \/ CachePassReturns
    \/ ChunkResolves

Spec == Init /\ [][Next]_vars

\* SpecEntry: as Spec with one attempt per cycle, target 1 or 2, and with
\* every way into a refill cycle: initialize(), the interval timer,
\* removeProxy's check and refillProxies(). With target 1 minThreshold is
\* left to its default, with target 2 it is 2: the threshold test passes
\* whenever no cycle is in flight.
InitEntry == InitWith({Config(1, 0, 1, TRUE, 1, 1), Config(2, 2, 1, TRUE, 1, 1)})

NextEntry ==
    \/ Initialize(MaxInitCalls)
    \/ InitializeResume
    \/ Stop
    \/ TimerTick
    \/ RefillCall
    \/ GetProxy
    \/ RemoveAny(Two)
    \/ CleanupCache
    \/ Tick(MaxTimeEntry)
    \/ ProviderResponds(ResponsesOver(Failures, BatchesOver(Two, MaxBatch)))
    \/ SleepEnds
    \/ CachePassReturns
    \/ ChunkResolves

SpecEntry == InitEntry /\ [][NextEntry]_vars

\* SpecPool: cache off, addresses A1, A2 and A3, target 3, chunks of 2.
InitPool == InitWith({Config(3, 1, 2, FALSE, 1, 1)})

NextPool ==
    \/ RefillCall
    \/ GetProxy
    \/ RemoveAny(Three)
    \/ ProviderResponds(ResponsesOver(Failures, BatchesOver(Three, MaxBatchPool)))
    \/ SleepEnds
    \/ ChunkResolves

SpecPool == InitPool /\ [][NextPool]_vars

\* SpecInit: cache off, target 1, address A1, two initialize() calls, which
\* can overlap each other and a cycle started by refillProxies() or by
\* removeProxy's check.
InitInit == InitWith({Config(1, 1, 1, FALSE, 1, 1)})

NextInit ==
    \/ Initialize(MaxInitOverlap)
    \/ InitializeResume
    \/ Stop
    \/ TimerTick
    \/ RefillCall
    \/ GetProxy
    \/ RemoveAny({A1})
    \/ ProviderResponds(ResponsesOver(Failures, BatchesOver({A1}, 1)))
    \/ SleepEnds
    \/ ChunkResolves

SpecInit == InitInit /\ [][NextInit]_vars

\* SpecTtl: cache on with a ttl of 2 clock units, target 1, address A1, so
\* that a verdict can be consulted at an age between 0 and the ttl.
InitTtl == InitWith({Config(1, 1, 2, TRUE, 2, 1)})

NextTtl ==
    \/ RefillCall
    \/ RemoveAny({A1})
    \/ CleanupCache
    \/ Tick(MaxTimeTtl)
    \/ ProviderResponds(ResponsesOver(Failures, BatchesOver({A1}, 1)))
    \/ SleepEnds
    \/ CachePassReturns
    \/ ChunkResolves

SpecTtl == InitTtl /\ [][NextTtl]_vars

\* SpecFair: cache on, target 2, batches of one address, where every provider
\* request, validation chunk and sleep of the cycle in flight completes.
FairResponses == ResponsesOver(Failures, BatchesOver(Two, MaxBatchFair))

NextFair ==
    \/ RefillCall
    \/ RemoveAny({A1})
    \/ Tick(MaxTimeFair)
    \/ ProviderResponds(FairResponses)
    \/ SleepEnds
    \/ CachePassReturns
    \/ ChunkResolves

SpecFair ==
    /\ Init
    /\ [][NextFair]_vars
    /\ WF_vars(ProviderResponds(FairResponses))
    /\ WF_vars(SleepEnds)
    /\ WF_vars(CachePassReturns)
    /\ WF_vars(ChunkResolves)

\* ----------------------------------------------------------------- claims
IsPrefix(a, b) == Len(a) <= Len(b) /\ SubSeq(b, 1, Len(a)) = a
Keys(cache) == {cache[k].key : k \in 1..Len(cache)}
CycleOps == {"fetchDone", "sleepDone", "cachePassDone", "chunkDone"}

\* C1 (uniqueness): in every reachable state no two members of the pool share
\* (host, port); a step of the refill cycle only appends to the pool, so a
\* candidate that is already a member leaves the members and their order as
\* they were, also when one validated batch names an address twice.
C1_Unique ==
    \A i, j \in 1..Len(availableProxies) :
        (availableProxies[i].ip = availableProxies[j].ip
            /\ availableProxies[i].port = availableProxies[j].port) => i = j
C1_Uniqueness ==
    /\ []C1_Unique
    /\ [][last'.op \in CycleOps => IsPrefix(availableProxies, availableProxies')]_vars

\* C1 witness: a fetched batch naming A1 twice was validated, both verdicts
\* valid, and A1 is a member.
C1_Witness ==
    /\ last.op = "chunkDone"
    /\ last.note.tested
    /\ last.note.batch = <<A1, A1>>
    /\ ~last.note.summary.attInvalid
    /\ \E k \in 1..Len(availableProxies) :
           availableProxies[k] = [ip |-> A1[1], port |-> A1[2]]

\* C2 (bounded size): the pool never holds more than targetCount members.
C2_BoundedSize == Len(availableProxies) <= targetCount

\* C2 witness: a cycle entered with the pool at target (deficit zero) and a
\* non-empty cache has completed.
C2_Witness ==
    /\ last.note.ended
    /\ last.note.summary.startLen = targetCount
    /\ Len(proxyCache) > 0
    /\ ~isRefilling
    /\ Len(availableProxies) = targetCount

\* C3 (single flight): a refill request that arrives while a cycle is in
\* flight (refillProxies(), a timer tick, initialize(), removeProxy's check)
\* leaves the cycle where it was, leaves the object Refilling, and issues no
\* provider request and no probe; a bare request (refillProxies(), timer
\* tick) changes nothing of the object at all.
RefillRequests == {"refillProxies", "timerTick", "initialize", "removeProxy"}
C3_SingleFlight ==
    [][(isRefilling /\ last'.op \in RefillRequests) =>
          /\ cycle' = cycle
          /\ isRefilling'
          /\ log'.fetches = log.fetches
          /\ log'.probesFetched = log.probesFetched
          /\ last'.op \in {"refillProxies", "timerTick"} =>
                 /\ obj' = obj
                 /\ timers' = timers
                 /\ pendingInit' = pendingInit]_vars

\* C3 witness: the interval timer fired while the cycle in flight was in a
\* retry sleep.
C3_Witness ==
    /\ last.op = "timerTick"
    /\ isRefilling
    /\ cycle.pc = "sleep"
    /\ Len(availableProxies) <= minThreshold

\* C4 (no stuck Refilling): when every provider request, validation chunk and
\* sleep completes, a cycle that is in flight ends and the object is Idle
\* again.
C4_NoStuckRefilling == isRefilling ~> ~isRefilling

\* C4 witness: a cycle was abandoned by an error thrown while it processed a
\* provider response, and the object is Idle.
C4_Witness ==
    /\ last.op = "fetchDone"
    /\ last.note.ended
    /\ last.note.summary.abandoned
    /\ ~isRefilling

\* C5 (round robin): the getProxy() calls made since the pool last changed
\* each returned a member, each the cyclic successor (in insertion order) of
\* the one before; N of them in a row (N the pool size) returned every member
\* exactly once, and the (N+1)-th returned what the first did.
C5_RoundRobin ==
    LET N == Len(availableProxies)
        At(k) == served[k].proxy[1]
    IN  /\ \A k \in 1..Len(served) :
               /\ served[k].kind = "proxy"
               /\ \E i \in 1..N : At(k) = availableProxies[i]
        /\ \A k \in 1..(Len(served) - 1) :
               \E i \in 1..N : /\ At(k) = availableProxies[i]
                               /\ At(k + 1) = availableProxies[(i % N) + 1]
        /\ \A b \in 0..(Len(served) - N) :
               b + N <= Len(served) /\ N >= 1 =>
                   /\ {At(b + k) : k \in 1..N} = Range(availableProxies)
                   /\ \A j, k \in 1..N : At(b + j) = At(b + k) => j = k
        /\ Len(served) = N + 1 => served[N + 1] = served[1]
        /\ Len(served) >= 1 =>
               At(Len(served)) = availableProxies[((currentIndex + N - 1) % N) + 1]

\* C5 witness: four getProxy() calls in a row on a pool of three.
C5_Witness ==
    /\ Len(availableProxies) = 3
    /\ Len(served) = 4
    /\ last.op = "getProxy"

\* C6 (removal): removeProxy(h, p) on a member returns true and leaves the
\* pool without that one member, the others in their order; on a non-member
\* it returns false and leaves pool and cache as they were.
C6_Removal ==
    [][last'.op = "removeProxy" =>
          LET h == last'.arg.ip
              p == last'.arg.port
              Is(m) == m.ip = h /\ m.port = p
              member == \E k \in 1..Len(availableProxies) : Is(availableProxies[k])
          IN  IF member
              THEN /\ last'.ret = BoolRet(TRUE)
                   /\ Len(availableProxies') = Len(availableProxies) - 1
                   /\ availableProxies' =
                          SelectSeq(availableProxies, LAMBDA m : ~Is(m))
              ELSE /\ last'.ret = BoolRet(FALSE)
                   /\ availableProxies' = availableProxies
                   /\ proxyCache' = proxyCache]_vars

\* C6 witness: removeProxy took the first of two members while a cycle was in
\* flight.
C6_Witness ==
    /\ last.op = "removeProxy"
    /\ last.ret.bool
    /\ isRefilling
    /\ Len(availableProxies) = 1
    /\ last.arg.ip = A1[1] /\ last.arg.port = A1[2]
    /\ availableProxies[1] = [ip |-> A2[1], port |-> A2[2]]

\* C7 (lookup expiry): when a validation chunk starts, a candidate resolves
\* to its cached verdict exactly when the cache holds an entry for it whose
\* age is below the ttl, and is probed otherwise; the cache-first pass
\* selects only entries that are valid and younger than the ttl; and no step
\* other than cleanupCache() takes an entry out of the cache.
ChunkStarts == cycle'.pc = "test" /\ (cycle.pc # "test" \/ cycle'.i # cycle.i)
C7_LookupExpiry ==
    [][/\ ChunkStarts =>
              \A j \in 1..Len(cycle'.pending) :
                  LET q == cycle'.pending[j]
                      Young(k) == /\ proxyCache'[k].key = q.proxy
                                  /\ now' - proxyCache'[k].timestamp < cacheExpiry
                  IN  /\ q.cached <=> \E k \in 1..Len(proxyCache') : Young(k)
                      /\ q.cached => \A k \in 1..Len(proxyCache') :
                                         Young(k) => proxyCache'[k].valid = q.result
       /\ (ChunkStarts /\ cycle'.src = "cache") =>
              \A j \in 1..Len(cycle'.proxies) :
                  \E k \in 1..Len(proxyCache') :
                      /\ proxyCache'[k].key = cycle'.proxies[j]
                      /\ proxyCache'[k].valid
                      /\ now' - proxyCache'[k].timestamp < cacheExpiry
       /\ last'.op # "cleanupCache" => Keys(proxyCache) \subseteq Keys(proxyCache')
      ]_vars

\* C7 witness: a fetched candidate whose cached verdict is exactly ttl old is
\* being probed, its entry still in the cache.
C7_Witness ==
    /\ last.op = "fetchDone"
    /\ cycle.pc = "test"
    /\ \E j \in 1..Len(cycle.pending), k \in 1..Len(proxyCache) :
           /\ ~cycle.pending[j].cached
           /\ proxyCache[k].key = cycle.pending[j].proxy
           /\ now - proxyCache[k].timestamp = cacheExpiry

\* C8 (sweep): cleanupCache() run at time t removes exactly the entries with
\* t - recordedAt >= ttl and keeps the others.
C8_SweepRemovesExpired ==
    [][last'.op = "cleanupCache" =>
          proxyCache' = SelectSeq(proxyCache,
                                  LAMBDA e : now - e.timestamp < cacheExpiry)]_vars

\* C9 (degrade and stop): a cycle that started below target and got only
\* empty batches from the provider has issued exactly maxRefillAttempts
\* requests, probed no fetched candidate, left the object Idle and added no
\* member.
C9_DegradeAndStop ==
    LET s == last.note.summary
    IN  (last.note.ended /\ s.allEmpty /\ ~s.abandoned /\ s.startLen < targetCount) =>
            /\ s.fetches = maxRefillAttempts
            /\ s.probesFetched = 0
            /\ ~isRefilling
            /\ s.added = 0

\* C10 (stop at target): when a fetched batch names at least `deficit`
\* distinct non-members, every verdict on it is valid and no member is
\* removed meanwhile, then after that attempt the pool is at target and the
\* cycle has ended without a further provider request.
C10_StopAtTarget ==
    LET s == last.note.summary
    IN  (/\ last.note.tested
         /\ ~s.attInvalid
         /\ ~s.attRemoved
         /\ Cardinality(Range(last.note.batch)) >= last.note.deficit) =>
            /\ last.note.sizeAfter = targetCount
            /\ last.note.ended

\* C11 (filter before validate): when a fetched batch goes to validation,
\* the candidates under validation are the batch, in order, without the
\* addresses that are members at that moment, and every promise of the chunk
\* is for one of them; when the validation of a fetched batch is over, every
\* candidate with a valid verdict is a member, unless the pool is at target.
IsMember(pool, a) == \E k \in 1..Len(pool) : pool[k].ip = a[1] /\ pool[k].port = a[2]
C11_FilterBeforeValidate ==
    /\ (last.op = "fetchDone" /\ cycle.pc = "test") =>
           /\ cycle.proxies =
                  SelectSeq(last.arg.batch, LAMBDA a : ~IsMember(availableProxies, a))
           /\ \A j \in 1..Len(cycle.pending) :
                  ~IsMember(availableProxies, cycle.pending[j].proxy)
    /\ (last.op = "fetchDone" /\ cycle.pc # "test" /\ ~last.note.ended) =>
           \A j \in 1..Len(last.arg.batch) : IsMember(availableProxies, last.arg.batch[j])
    /\ last.note.tested =>
           \/ Len(availableProxies) = targetCount
           \/ \A j \in 1..Len(last.note.results) :
                  last.note.results[j].result =>
                      IsMember(availableProxies, last.note.results[j].proxy)

\* C11 witness: target 2, A1 the only member, the provider offered <<A1, A2>>
\* and only A2 is under validation.
C11_Witness ==
    /\ last.op = "fetchDone"
    /\ last.arg.batch = <<A1, A2>>
    /\ availableProxies = <<[ip |-> A1[1], port |-> A1[2]]>>
    /\ cycle.pc = "test"
    /\ cycle.proxies = <<A2>>
    /\ Len(cycle.pending) = 1

\* C12 (stop halts the timer): when stop() has returned no interval timer is
\* active, whatever initialize() calls came before; stop() leaves the pool,
\* the cursor and the cache as they were.
C12_StopHaltsTimer ==
    /\ [](last.op = "stop" => (timers = {} /\ checkTimer = NoTimer))
    /\ [][last'.op = "stop" =>
             /\ availableProxies' = availableProxies
             /\ currentIndex' = currentIndex
             /\ proxyCache' = proxyCache]_vars

\* C13 (initialize ordering): an initialize() call becomes ready to start
\* the timer and mark the object initialized only in a step in which a
\* refill cycle has run to its end, also when the call finds a cycle in
\* flight; only such a continuation starts a timer or marks the object
\* initialized; initialize() on an initialized object starts no cycle and no
\* timer.
C13_InitializeOrdering ==
    /\ [][pendingInit' > pendingInit => last'.note.ended]_vars
    /\ [][((~isInitialized /\ isInitialized') \/ ~(timers' \subseteq timers)) =>
             (last'.op = "initializeResume" /\ pendingInit' = pendingInit - 1)]_vars
    /\ [][(last'.op = "initialize" /\ isInitialized) =>
             /\ obj' = obj
             /\ timers' = timers
             /\ cycle' = cycle
             /\ pendingInit' = pendingInit]_vars

\* C14 (provider degrade and retry): a provider outcome other than a list of
\* addresses (transport failure, non-success code, data or proxies missing)
\* is taken as an empty batch: the cycle is not abandoned, it stays in flight
\* and sleeps the retry delay before the next attempt.
C14_DegradeAndRetry ==
    (last.op = "fetchDone" /\ last.arg.resp # "ok") =>
        /\ getProxiesFromProvider([kind |-> last.arg.resp, proxies |-> <<>>]) =
               [defined |-> TRUE, list |-> <<>>]
        /\ ~last.note.ended
        /\ isRefilling
        /\ cycle.pc = "sleep"

\* C15 (cursor invariant): while the pool is non-empty the cursor is an index
\* into it, so getProxy() never returns an undefined slot; on an empty pool
\* getProxy() returns absent and leaves the cursor where it was.
C15_CursorInvariant ==
    /\ [](Len(availableProxies) > 0 =>
             (0 <= currentIndex /\ currentIndex < Len(availableProxies)))
    /\ [](last.op = "getProxy" => last.ret.kind # "undefined")
    /\ [][(last'.op = "getProxy" /\ Len(availableProxies) = 0) =>
             (last'.ret.kind = "null" /\ currentIndex' = currentIndex)]_vars
    /\ [][(last'.op = "getProxy" /\ Len(availableProxies) > 0) =>
             (/\ last'.ret.kind = "proxy"
              /\ last'.ret.proxy = <<availableProxies[currentIndex + 1]>>)]_vars

\* C15 witness: removeProxy took one of three members and the cursor is at
\* the start of the two that are left.
C15_Witness ==
    /\ last.op = "removeProxy"
    /\ last.ret.bool
    /\ Len(availableProxies) = 2
    /\ currentIndex = 0
    /\ last.arg.ip = A3[1] /\ last.arg.port = A3[2]

\* C16 (cache-first pass): when a cycle starts with a cache-first pass that
\* selected candidates, every selected entry is valid and unexpired, at most
\* deficit (targetCount - pool size at entry) entries are selected, every
\* selected candidate is probed through the validator, and no provider request
\* has been issued yet.
C16_CacheFirstPass ==
    [][(ChunkStarts /\ cycle.pc = "idle" /\ cycle'.src = "cache") =>
          /\ \A j \in 1..Len(cycle'.proxies) :
                 \E k \in 1..Len(proxyCache') :
                     /\ proxyCache'[k].key = cycle'.proxies[j]
                     /\ proxyCache'[k].valid
                     /\ now' - proxyCache'[k].timestamp < cacheExpiry
          /\ Len(cycle'.proxies) <= targetCount - Len(availableProxies')
          /\ \A j \in 1..Len(cycle'.pending) : ~cycle'.pending[j].cached
          /\ log'.fetches = 0]_vars

\* C17 (removed proxies stay out): removeProxy of a member records an invalid
\* verdict for it with the time of the call; an address that is not a member
\* and has an invalid verdict younger than the ttl is not made a member by
\* any step.
FreshInvalid(a) ==
    \E k \in 1..Len(proxyCache) :
        /\ proxyCache[k].key = a
        /\ ~proxyCache[k].valid
        /\ now - proxyCache[k].timestamp < cacheExpiry
C17_RemovedStayOut ==
    /\ [][(last'.op = "removeProxy" /\ last'.ret.bool /\ useCache) =>
             \E k \in 1..Len(proxyCache') :
                 proxyCache'[k] = [key |-> <<last'.arg.ip, last'.arg.port>>,
                                   valid |-> FALSE, timestamp |-> now]]_vars
    /\ [][\A a \in Three :
             (FreshInvalid(a) /\ ~IsMember(availableProxies, a)) =>
                 ~IsMember(availableProxies', a)]_vars

\* C18 (valid verdict implies membership): with the cache on, every cache
\* entry marked valid has the address of a member of the pool.
C18_ValidImpliesMember ==
    useCache =>
        \A k \in 1..Len(proxyCache) :
            proxyCache[k].valid => IsMember(availableProxies, proxyCache[k].key)

\* C18 witness: removeProxy took A1, whose entry is now invalid, while A2 is
\* a member with a valid entry.
C18_Witness ==
    /\ last.op = "removeProxy"
    /\ last.ret.bool
    /\ last.arg.ip = A1[1] /\ last.arg.port = A1[2]
    /\ \E k \in 1..Len(proxyCache) : proxyCache[k].key = A1 /\ ~proxyCache[k].valid
    /\ \E k \in 1..Len(proxyCache) : proxyCache[k].key = A2 /\ proxyCache[k].valid
    /\ IsMember(availableProxies, A2)

\* C19 (verdicts do not renew themselves): when a validation is over, the
\* entry of a candidate that was answered from its fresh cached verdict, and
\* was not admitted by that step, has the recordedAt it had before.
C19_NoSelfRenewal ==
    [][last'.op = "chunkDone" =>
          \A j \in 1..Len(cycle.pending) :
              LET q == cycle.pending[j]
              IN  (/\ q.cached
                   /\ CacheHas(proxyCache, q.proxy)
                   /\ ~(IsMember(availableProxies', q.proxy)
                            /\ ~IsMember(availableProxies, q.proxy))) =>
                      /\ CacheHas(proxyCache', q.proxy)
                      /\ CacheGet(proxyCache', q.proxy).timestamp =
                             CacheGet(proxyCache, q.proxy).timestamp]_vars

\* C20 (round robin survives removal): when removeProxy removes a member
\* other than the one at the cursor, the cursor still points at the member it
\* pointed at, so the next getProxy() returns that member.
C20_RoundRobinSurvivesRemoval ==
    [][(/\ last'.op = "removeProxy"
        /\ last'.ret.bool
        /\ currentIndex < Len(availableProxies)
        /\ ~(/\ availableProxies[currentIndex + 1].ip = last'.arg.ip
             /\ availableProxies[currentIndex + 1].port = last'.arg.port)) =>
          /\ currentIndex' < Len(availableProxies')
          /\ availableProxies'[currentIndex' + 1] = availableProxies[currentIndex + 1]
      ]_vars

====
